---- MODULE Spec2Model ----
(***************************************************************************)
(* Sm-Nd isotope data reduction scheme (Sm_Nd_Isotopes_UWA v4.8 and v4.9). *)
(*                                                                         *)
(* The module models runDRS and rho_corr_147Sm_143Nd of both script        *)
(* versions as a state machine over the host's store, settings, selection  *)
(* groups and the log of the calls the script makes on the host.           *)
(*                                                                         *)
(* Floating point.  A numpy float64 is modelled as a decade float: NaN,    *)
(* +-infinity, +-0, or +-10^e with e an integer (a decimal float with no   *)
(* mantissa digits).  The special-value rules are IEEE-754's (x/0 = inf,   *)
(* 0/0 = inf*0 = inf-inf = NaN, log(0) = -inf, log(x<0) = NaN, NaN is       *)
(* absorbing, NaN != 0 is true); products and quotients of finite values   *)
(* are exact; a difference, a logarithm and a power are rounded to the     *)
(* nearest decade.  Exponents are unbounded integers, so the only sources  *)
(* of infinity are the IEEE ones (no overflow on bounded count rates).     *)
(***************************************************************************)
EXTENDS Integers, Sequences, FiniteSets, TLC

\* ------------------------------------------------------------ bounds
\* number of samples on the shared time axis
TimeLen == 3
\* longest list of selection groups the store holds
MaxGroups == 2

\* ------------------------------------------------------------ floats
NaN == [k |-> "nan", s |-> 0, e |-> 0]
PInf == [k |-> "inf", s |-> 1, e |-> 0]
NInf == [k |-> "inf", s |-> -1, e |-> 0]
Zero == [k |-> "zero", s |-> 1, e |-> 0]
NegZero == [k |-> "zero", s |-> -1, e |-> 0]
Fin(s, e) == [k |-> "fin", s |-> s, e |-> e]
One == Fin(1, 0)
Inf(s) == [k |-> "inf", s |-> s, e |-> 0]
Zer(s) == [k |-> "zero", s |-> s, e |-> 0]

IsNaN(x) == x.k = "nan"
IsInf(x) == x.k = "inf"
IsZero(x) == x.k = "zero"
IsFin(x) == x.k = "fin"
\* numpy: x != 0 (true for NaN and the infinities, false for +0 and -0)
NeZero(x) == x.k # "zero"
\* numpy: x > 0 (false for NaN and the zeros)
Gt0(x) == x.k \in {"fin", "inf"} /\ x.s = 1
Neg(x) == IF IsNaN(x) THEN NaN ELSE [x EXCEPT !.s = -x.s]

\* numpy: a * b
Mul(a, b) ==
  IF IsNaN(a) \/ IsNaN(b) THEN NaN
  ELSE IF (IsInf(a) /\ IsZero(b)) \/ (IsZero(a) /\ IsInf(b)) THEN NaN
  ELSE IF IsInf(a) \/ IsInf(b) THEN Inf(a.s * b.s)
  ELSE IF IsZero(a) \/ IsZero(b) THEN Zer(a.s * b.s)
  ELSE Fin(a.s * b.s, a.e + b.e)

\* numpy: a / b  (division by zero gives an infinity or NaN, never an error)
Div(a, b) ==
  IF IsNaN(a) \/ IsNaN(b) THEN NaN
  ELSE IF (IsInf(a) /\ IsInf(b)) \/ (IsZero(a) /\ IsZero(b)) THEN NaN
  ELSE IF IsInf(a) \/ IsZero(b) THEN Inf(a.s * b.s)
  ELSE IF IsZero(a) \/ IsInf(b) THEN Zer(a.s * b.s)
  ELSE Fin(a.s * b.s, a.e - b.e)

\* numpy: a - b, rounded to the nearest decade
Sub(a, b) ==
  IF IsNaN(a) \/ IsNaN(b) THEN NaN
  ELSE IF IsInf(a) /\ IsInf(b) THEN (IF a.s = b.s THEN NaN ELSE a)
  ELSE IF IsInf(a) THEN a
  ELSE IF IsInf(b) THEN Neg(b)
  ELSE IF IsZero(a) /\ IsZero(b) THEN (IF a.s = -1 /\ b.s = 1 THEN NegZero ELSE Zero)
  ELSE IF IsZero(b) THEN a
  ELSE IF IsZero(a) THEN Neg(b)
  ELSE IF a.s # b.s THEN Fin(a.s, IF a.e >= b.e THEN a.e ELSE b.e)
  ELSE IF a.e > b.e THEN a
  ELSE IF a.e < b.e THEN Neg(b)
  ELSE Zero

RECURSIVE DecadeFrom(_, _)
DecadeFrom(n, p) == IF n * n < 10 * p * p THEN 0 ELSE 1 + DecadeFrom(n, 10 * p)
\* the decade of a positive integer n: the d with 10^(d-1/2) <= n < 10^(d+1/2)
DecadeOf(n) == DecadeFrom(n, 1)

RECURSIVE Pow10(_)
Pow10(n) == IF n <= 0 THEN 1 ELSE 10 * Pow10(n - 1)

\* numpy: np.log(a)  (ln 10 is of decade 0, so ln(10^e) is of the decade of e)
Log(a) ==
  IF IsNaN(a) THEN NaN
  ELSE IF IsZero(a) THEN NInf
  ELSE IF a.s = -1 THEN NaN
  ELSE IF IsInf(a) THEN PInf
  ELSE IF a.e = 0 THEN Zero
  ELSE IF a.e > 0 THEN Fin(1, DecadeOf(a.e))
  ELSE Fin(-1, DecadeOf(-a.e))

\* 10 ** x for a float x
Exp10(x) ==
  IF IsNaN(x) THEN NaN
  ELSE IF IsInf(x) THEN (IF x.s = 1 THEN PInf ELSE Zero)
  ELSE IF IsZero(x) THEN One
  ELSE IF x.e < 0 THEN One
  ELSE Fin(1, x.s * Pow10(x.e))

\* numpy: base ** f for a positive base given by its log10, lb
Pow(lb, f) == Exp10(Mul(f, lb))

\* numpy: np.where(c, a, b) at one sample
Where(c, a, b) == IF c THEN a ELSE b

\* ------------------------------------------------------------ settings
\* settingsWidget's defaults, as decade floats:
\* NdTrue 0.7219, Sm147_149 1.08680, Sm144_149 0.22332, Sm148_149 0.81419
DefaultConsts ==
  [NdTrue |-> Fin(1, 0), Sm147_149 |-> Fin(1, 0),
   Sm144_149 |-> Fin(1, -1), Sm148_149 |-> Fin(1, 0)]

\* np.log(146.9149 / 148.9172) = -0.01354
LnMass147_149 == Fin(-1, -2)
\* np.log(145.9131 / 143.9098) = 0.01382
LnMass146_144 == Fin(1, -2)
\* log10 of the mass ratios that are raised to a fractionation factor:
\* 148.9172/143.912 (0.0148), 148.9172/147.9148 (0.0029),
\* 142.9098/143.9098 (-0.0030), 144.9126/143.9098 (0.0030),
\* 147.916889/143.9098 (0.0119)
LgMass149_144 == Fin(1, -2)
LgMass149_148 == Fin(1, -3)
LgMass143_144 == Fin(-1, -3)
LgMass145_144 == Fin(1, -3)
LgMass148_144 == Fin(1, -2)
\* the natural abundance fraction of 146Nd, 0.172
Abund146 == Fin(1, -1)

\* ------------------------------------------------------------ numeric pipeline
\* Every operator below is the value at one sample: c holds the settings
\* constants, x the baseline-subtracted count rates of the sample and its mask.
SmFract(c, x) ==
  Mul(Div(Log(Div(c.Sm147_149,
                  Where(NeZero(x.Sm149), Div(x.Sm147, x.Sm149), NaN))),
          LnMass147_149),
      x.mask)

Sm144(c, x) ==
  Mul(Mul(Mul(x.Sm149, c.Sm144_149), Pow(LgMass149_144, SmFract(c, x))), x.mask)

Sm148(c, x) ==
  Mul(Mul(Mul(x.Sm149, c.Sm148_149), Pow(LgMass149_148, SmFract(c, x))), x.mask)

Nd144c(c, x) == Mul(Sub(x.Nd144, Sm144(c, x)), x.mask)

Nd148c(c, x) == Mul(Sub(x.Nd148, Sm148(c, x)), x.mask)

Nd144c_safe(c, x) == Where(NeZero(Nd144c(c, x)), Nd144c(c, x), NaN)

NdFract(c, x) ==
  Mul(Div(Log(Div(c.NdTrue,
                  Where(NeZero(Nd144c_safe(c, x)),
                        Div(x.Nd146, Nd144c_safe(c, x)), NaN))),
          LnMass146_144),
      x.mask)

Nd143_144_Corr(c, x) ==
  Mul(Mul(Div(x.Nd143, Nd144c_safe(c, x)), Pow(LgMass143_144, NdFract(c, x))),
      x.mask)

Nd145_144_Corr(c, x) ==
  Mul(Mul(Div(x.Nd145, Nd144c_safe(c, x)), Pow(LgMass145_144, NdFract(c, x))),
      x.mask)

Nd148_144_Corr(c, x) ==
  Mul(Mul(Div(Nd148c(c, x), Nd144c_safe(c, x)), Pow(LgMass148_144, NdFract(c, x))),
      x.mask)

Sm147_Nd144_Corr(c, x) == Mul(Div(x.Sm147, Nd144c_safe(c, x)), x.mask)

\* faulty variant: the total is not masked
TotalNd_Unmasked(c, x) == Div(x.Nd146, Abund146)

TotalNd(c, x) == Mul(Div(x.Nd146, Abund146), x.mask)

\* the arrays runDRS holds after its elementwise section, one field per local
Pipeline(c, xs) ==
  [SmFract |-> [i \in 1..Len(xs) |-> SmFract(c, xs[i])],
   Sm144 |-> [i \in 1..Len(xs) |-> Sm144(c, xs[i])],
   Sm148 |-> [i \in 1..Len(xs) |-> Sm148(c, xs[i])],
   Nd144c |-> [i \in 1..Len(xs) |-> Nd144c(c, xs[i])],
   Nd148c |-> [i \in 1..Len(xs) |-> Nd148c(c, xs[i])],
   NdFract |-> [i \in 1..Len(xs) |-> NdFract(c, xs[i])],
   Nd143_144_Corr |-> [i \in 1..Len(xs) |-> Nd143_144_Corr(c, xs[i])],
   Nd145_144_Corr |-> [i \in 1..Len(xs) |-> Nd145_144_Corr(c, xs[i])],
   Nd148_144_Corr |-> [i \in 1..Len(xs) |-> Nd148_144_Corr(c, xs[i])],
   Sm147_Nd144_Corr |-> [i \in 1..Len(xs) |-> Sm147_Nd144_Corr(c, xs[i])],
   TotalNd |-> [i \in 1..Len(xs) |-> TotalNd(c, xs[i])]]

\* np.full_like(a, v)
FullLike(a, v) == [i \in 1..Len(a) |-> v]

\* raw * std / np.where(spline != 0, spline, np.nan), elementwise
StdCorrect(raw, std, spline) ==
  [i \in 1..Len(raw) |->
     Div(Mul(raw[i], std), Where(NeZero(spline[i]), spline[i], NaN))]

\* ------------------------------------------------------------ rho
RECURSIVE Sum(_)
Sum(q) == IF q = <<>> THEN 0 ELSE Head(q) + Sum(Tail(q))

RECURSIVE RhoDecade(_, _)
\* the decade of |r| <= 1 from r^2 = c2 / vv, with c2 > 0
RhoDecade(c2, vv) == IF 10 * c2 >= vv THEN 0 ELSE RhoDecade(100 * c2, vv) - 1

\* np.log10 of a value that passed the validity test (> 0, not NaN)
Log10(x) == IF IsInf(x) THEN [k |-> "inf", v |-> 0] ELSE [k |-> "fin", v |-> x.e]

\* np.corrcoef(xs, ys)[0, 1]: covariance over (n - 1), then c / sqrt(vx * vy);
\* one observation gives 0/0, a constant array gives 0/0, an infinite entry
\* gives inf - inf: each is NaN (with a numpy warning, not an error)
Corrcoef(xs, ys) ==
  LET n == Len(xs)
      X == [i \in 1..n |-> xs[i].v]
      Y == [i \in 1..n |-> ys[i].v]
      c == n * Sum([i \in 1..n |-> X[i] * Y[i]]) - Sum(X) * Sum(Y)
      vx == n * Sum([i \in 1..n |-> X[i] * X[i]]) - Sum(X) * Sum(X)
      vy == n * Sum([i \in 1..n |-> Y[i] * Y[i]]) - Sum(Y) * Sum(Y)
  IN IF \E i \in 1..n : xs[i].k = "inf" \/ ys[i].k = "inf" THEN NaN
     ELSE IF n - 1 = 0 THEN NaN
     ELSE IF vx = 0 \/ vy = 0 THEN NaN
     ELSE IF c = 0 THEN Zero
     ELSE Fin(IF c > 0 THEN 1 ELSE -1, RhoDecade(c * c, vx * vy))

\* series.dataForSelection(sel): the samples of the series inside the selection
dataForSelection(series, sel) ==
  LET at == SelectSeq([i \in 1..Len(series) |-> i], LAMBDA i : i \in sel.idx)
  IN [j \in 1..Len(at) |-> series[at[j]]]

\* a[valid] for a boolean array valid
Masked(a, valid) ==
  LET at == SelectSeq([i \in 1..Len(a) |-> i], LAMBDA i : valid[i])
  IN [j \in 1..Len(at) |-> a[at[j]]]

\* one entry of the log of calls made on the host
Call(op, a, b, c) == [op |-> op, a |-> a, b |-> b, c |-> c, g |-> <<>>, ok |-> TRUE]

\* faulty variant: no try/except, the exception of the extraction leaves the function
rho_corr_NoCatch(st, sel, raises) ==
  IF raises \/ st.StdCorr_147Sm_144 = <<>> \/ st.StdCorr_143Nd_144 = <<>>
  THEN [value |-> NaN, raised |-> TRUE, log |-> <<>>]
  ELSE [value |-> NaN, raised |-> FALSE, log |-> <<>>]

\* rho_corr_147Sm_143Nd(sel) against the store st.  raises is the host's choice
\* of whether the extraction raises; a series missing from the store raises too.
\* The result holds the value set on the Result, whether the function itself
\* raised, and the messages it sent.
rho_corr_147Sm_143Nd(st, sel, raises) ==
  IF raises \/ st.StdCorr_147Sm_144 = <<>> \/ st.StdCorr_143Nd_144 = <<>>
  THEN [value |-> NaN, raised |-> FALSE,
        log |-> <<Call("message", "rho_corr error", sel.name, "")>>]
  ELSE
    LET sm == dataForSelection(st.StdCorr_147Sm_144, sel)
        nd == dataForSelection(st.StdCorr_143Nd_144, sel)
        valid == [i \in 1..Len(sm) |->
                    ~IsNaN(sm[i]) /\ ~IsNaN(nd[i]) /\ Gt0(sm[i]) /\ Gt0(nd[i])]
        smv == Masked(sm, valid)
        ndv == Masked(nd, valid)
        lsm == [i \in 1..Len(smv) |-> Log10(smv[i])]
        lnd == [i \in 1..Len(ndv) |-> Log10(ndv[i])]
    IN IF \E i \in 1..Len(sm) : valid[i]
       THEN [value |-> Corrcoef(lsm, lnd),
             raised |-> FALSE, log |-> <<>>]
       ELSE [value |-> NaN, raised |-> FALSE, log |-> <<>>]

\* ------------------------------------------------------------ host state
VARIABLES
  version,   \* which script runs: "v4.8" or "v4.9"
  groups,    \* data.selectionGroupList(): the store's selection groups, in order
  drsSettings, \* the host's settings record (drs.settings(), drs.setSetting)
  settings,  \* runDRS's local settings, the record drs.settings() returned
  host,      \* what the host answers in this run (count rates, mask, splines, faults)
  pc,        \* runDRS's position
  rmName,    \* runDRS's local rmName
  loc,       \* runDRS's local arrays
  store,     \* the output time series of the store, <<>> while not created
  calls,     \* the calls made on the host so far, in order
  scan,      \* the rho scan: loop index, first_rho_val, the evaluations made
  result     \* the last Result the host got from the associated-result callable

vars == <<version, groups, drsSettings, settings, host, pc, rmName, loc, store, calls, scan, result>>

Versions == {"v4.8", "v4.9"}

\* the groups the store may hold; idx is the part of the time axis a group selects
GroupPool ==
  {[name |-> "Baseline", type |-> "Baseline", idx |-> {1}],
   [name |-> "G_LREE", type |-> "ReferenceMaterial", idx |-> {1, 2}],
   [name |-> "RM_A", type |-> "ReferenceMaterial", idx |-> {2, 3}],
   [name |-> "RM_B", type |-> "ReferenceMaterial", idx |-> {3}]}

GroupLists ==
  {q \in UNION {[1..n -> GroupPool] : n \in 0..MaxGroups} :
     \A i, j \in DOMAIN q : i # j => q[i] # q[j]}

\* the names a user may have configured as reference material
ConfiguredNames == {"RM_A", "Missing"}

InSeq(x, q) == \E i \in 1..Len(q) : q[i] = x

\* data.selectionGroupNames(type)
selectionGroupNames(gs, type) ==
  LET sel == SelectSeq(gs, LAMBDA g : g.type = type)
  IN [i \in 1..Len(sel) |-> sel[i].name]

\* the input channels, data.timeSeriesList(data.Input)
InputChannels ==
  <<"Nd143_CPS", "Nd144_CPS", "Nd145_CPS", "Nd146_CPS", "Nd148_CPS",
    "Sm147_CPS", "Sm149_CPS">>

\* the count rates of the end-to-end scenario: Sm147 1000, Sm149 920, Nd144 5000,
\* Nd146 900, Nd148 300, Nd143 600, Nd145 400
Nominal ==
  [Nd143 |-> Fin(1, 3), Nd144 |-> Fin(1, 4), Nd145 |-> Fin(1, 3),
   Nd146 |-> Fin(1, 3), Nd148 |-> Fin(1, 2), Sm147 |-> Fin(1, 3),
   Sm149 |-> Fin(1, 3)]

Ones == [i \in 1..TimeLen |-> One]
Zeros == [i \in 1..TimeLen |-> Zero]
NominalCps == [i \in 1..TimeLen |-> Nominal]

\* spline arrays the host may return
Ramp == [i \in 1..TimeLen |-> Fin(1, i - 1)]
ZigZag == [i \in 1..TimeLen |-> Fin(1, (i + 1) % 2)]
ZeroFirst == [i \in 1..TimeLen |-> IF i = 1 THEN Zero ELSE One]

\* data.referenceMaterialData(rm)[key].value(): 143Nd/144Nd is about 0.51,
\* 147Sm/144Nd about 0.2
Accepted(rm, key) == IF key = "143Nd/144Nd" THEN Fin(1, 0) ELSE Fin(1, -1)

OutNames ==
  {"Nd143_144_Corr", "Sm147_Nd144_Corr", "StdCorr_147Sm_144", "StdCorr_143Nd_144",
   "Nd145_144_Corr", "Nd148_144_Corr", "NdFract", "SmFract", "TotalNd", "rho"}

EmptyStore == [n \in OutNames |-> <<>>]

NoLocals ==
  [SmFract |-> <<>>, Sm144 |-> <<>>, Sm148 |-> <<>>, Nd144c |-> <<>>, Nd148c |-> <<>>,
   NdFract |-> <<>>, Nd143_144_Corr |-> <<>>, Nd145_144_Corr |-> <<>>,
   Nd148_144_Corr |-> <<>>, Sm147_Nd144_Corr |-> <<>>, TotalNd |-> <<>>,
   StdCorr_143Nd_144 |-> <<>>, StdCorr_147Sm_144 |-> <<>>]

NoScan == [i |-> 0, first |-> NaN, evals |-> <<>>]
NoResult == [sel |-> "", value |-> NaN, raised |-> FALSE, log |-> <<>>]

\* runDRS's local settings before drs.settings() is read
NoSettings ==
  [ReferenceMaterial |-> "", PropagateError |-> FALSE, NdTrue |-> NaN,
   Sm147_149 |-> NaN, Sm144_149 |-> NaN, Sm148_149 |-> NaN]

MkSettings(rm, prop, c) ==
  [ReferenceMaterial |-> rm, PropagateError |-> prop, NdTrue |-> c.NdTrue,
   Sm147_149 |-> c.Sm147_149, Sm144_149 |-> c.Sm144_149, Sm148_149 |-> c.Sm148_149]

\* the count rates and masks of the runs of Spec
\* (all nominal; or no 147Sm signal at sample 1 and the last sample masked out)
MainInputs ==
  {[cps |-> NominalCps, mask |-> Ones],
   [cps |-> [NominalCps EXCEPT ![1].Sm147 = Zero],
    mask |-> [Ones EXCEPT ![TimeLen] = Zero]]}

\* PropagateError exists in v4.8 only (its settingsWidget sets it, runDRS reads
\* it); v4.9 has no such key, which is modelled as FALSE.
Init ==
  /\ version \in Versions
  /\ groups \in GroupLists
  /\ \E rm \in ConfiguredNames, prop \in BOOLEAN :
       /\ version = "v4.9" => prop = FALSE
       /\ drsSettings = MkSettings(rm, prop, DefaultConsts)
  /\ settings = NoSettings
  /\ \E in \in MainInputs :
       host = [faults |-> TRUE, cps |-> in.cps, mask |-> in.mask,
               splines143 |-> {Ramp}, splines147 |-> {ZigZag}]
  /\ pc = "start"
  /\ rmName = ""
  /\ loc = NoLocals
  /\ store = EmptyStore
  /\ calls = <<>>
  /\ scan = NoScan
  /\ result = NoResult

\* ------------------------------------------------------------ runDRS
\* The host calls that may raise are createTimeSeries, createSpline, spline,
\* referenceMaterialData, propagateErrors and dataForSelection.  A call that
\* raised is logged with ok = FALSE.
Raise(call) == [call EXCEPT !.ok = FALSE]

\* how many of n fallible calls return before one raises (n: none raises)
Returned(n) == IF host.faults THEN 0..n ELSE {n}

\* faulty variant: the first available name is preferred to G_LREE
ResolveRM_FirstBeforeFallback(configured, rmNames) ==
  IF InSeq(configured, rmNames)
  THEN [found |-> TRUE, name |-> configured, fallback |-> FALSE]
  ELSE IF rmNames # <<>>
  THEN [found |-> TRUE, name |-> rmNames[1], fallback |-> TRUE]
  ELSE [found |-> FALSE, name |-> configured, fallback |-> FALSE]

\* faulty variant: with no reference material at all the run goes on with the configured name
ResolveRM_NoAbort(configured, rmNames) ==
  IF InSeq(configured, rmNames) \/ rmNames = <<>>
  THEN [found |-> TRUE, name |-> configured, fallback |-> FALSE]
  ELSE IF InSeq("G_LREE", rmNames)
  THEN [found |-> TRUE, name |-> "G_LREE", fallback |-> TRUE]
  ELSE [found |-> TRUE, name |-> rmNames[1], fallback |-> TRUE]

\* the reference-material check of runDRS: the resolved name, whether one was
\* found, and whether it is a fallback
ResolveRM(configured, rmNames) ==
  IF InSeq(configured, rmNames)
  THEN [found |-> TRUE, name |-> configured, fallback |-> FALSE]
  ELSE IF InSeq("G_LREE", rmNames)
  THEN [found |-> TRUE, name |-> "G_LREE", fallback |-> TRUE]
  ELSE IF rmNames # <<>>
  THEN [found |-> TRUE, name |-> rmNames[1], fallback |-> TRUE]
  ELSE [found |-> FALSE, name |-> configured, fallback |-> FALSE]

\* runDRS from its first line to the end of the reference-material check
Resolve ==
  /\ pc = "start"
  /\ LET rmNames == selectionGroupNames(groups, "ReferenceMaterial")
         r == ResolveRM(drsSettings.ReferenceMaterial, rmNames)
         head == <<Call("message", "Running", "", ""), Call("progress", "0", "", "")>>
     IN /\ settings' = drsSettings
        /\ rmName' = r.name
        /\ IF ~r.found
           THEN /\ calls' = calls \o head \o
                      <<Call("message", "Error: No reference material available.", "", ""),
                        Call("finished", "", "", "")>>
                /\ pc' = "returned"
                /\ UNCHANGED drsSettings
           ELSE IF r.fallback
           THEN /\ calls' = calls \o head \o
                      <<Call("message", "fallback", r.name, ""),
                        Call("setSetting", "ReferenceMaterial", r.name, "")>>
                /\ drsSettings' = [drsSettings EXCEPT !.ReferenceMaterial = r.name]
                /\ pc' = "reduce"
           ELSE /\ calls' = calls \o head
                /\ pc' = "reduce"
                /\ UNCHANGED drsSettings
  /\ UNCHANGED <<version, groups, host, loc, store, scan, result>>

\* data.createTimeSeries(name, data.Output, time, values) for the first k names
CreateAll(st, names, vals, k) ==
  [n \in DOMAIN st |->
     IF \E j \in 1..k : names[j] = n THEN vals[n] ELSE st[n]]

\* the log of creating names in order when only the first k calls return
CreateCalls(names, k) ==
  [j \in 1..k |-> Call("createTimeSeries", names[j], "", "")]
    \o (IF k < Len(names) THEN <<Raise(Call("createTimeSeries", names[k + 1], "", ""))>> ELSE <<>>)

\* the baseline-subtracted count rates of each sample with the sample's mask
WithMask(cps, mask) ==
  [i \in 1..Len(cps) |->
     [Nd143 |-> cps[i].Nd143, Nd144 |-> cps[i].Nd144, Nd145 |-> cps[i].Nd145,
      Nd146 |-> cps[i].Nd146, Nd148 |-> cps[i].Nd148, Sm147 |-> cps[i].Sm147,
      Sm149 |-> cps[i].Sm149, mask |-> mask[i]]]

\* faulty variant: only the 143Nd/144Nd ratio is published before the splines
RawNames_Only143 == <<"Nd143_144_Corr">>

\* the raw ratios published for spline generation, in order
RawNames == <<"Nd143_144_Corr", "Sm147_Nd144_Corr">>
RawNameSet == {RawNames[i] : i \in 1..Len(RawNames)}

\* runDRS from parameter loading to the publication of the two raw ratios
Reduce ==
  /\ pc = "reduce"
  /\ \E k \in Returned(Len(RawNames)),
        p \in {Pipeline(settings, WithMask(host.cps, host.mask))} :
       LET pre == <<Call("setIndexChannel", "", "", ""),
                    Call("createMaskFromCutoff", "", "", "")>>
                  \o [j \in 1..Len(InputChannels) |->
                        Call("baselineSubtract", "Baseline", InputChannels[j], "")]
       IN /\ loc' = [n \in DOMAIN loc |-> IF n \in DOMAIN p THEN p[n] ELSE loc[n]]
          /\ store' = CreateAll(store, RawNames, p, k)
          /\ calls' = calls \o pre \o CreateCalls(RawNames, k)
          /\ pc' = IF k < Len(RawNames) THEN "raised" ELSE "std143"
  /\ UNCHANGED <<version, groups, drsSettings, settings, host, rmName, scan, result>>

\* how a try block of the standard correction ends: "ok", or the call that raised
StdOutcomes ==
  IF host.faults THEN {"ok", "createSpline", "spline", "referenceMaterialData"}
  ELSE {"ok"}

\* faulty variant: a failed try block leaves the raw ratio in the standardized array
StandardCorrection_KeepRaw(rm, rawName, raw, key, out, spl) ==
  [std |-> IF out = "ok" THEN StdCorrect(raw, Accepted(rm, key), spl) ELSE raw,
   log |->
     IF out = "ok"
     THEN <<Call("createSpline", rm, rawName, ""), Call("spline", rm, rawName, ""),
            Call("referenceMaterialData", rm, key, "")>>
     ELSE <<Raise(Call(out, rm, IF out = "referenceMaterialData" THEN key ELSE rawName, "")),
            Call("message", "Warning", key, "")>>]

\* one try block of the standard correction: the standardized array and the calls
StandardCorrection(rm, rawName, raw, key, out, spl) ==
  [std |-> IF out = "ok" THEN StdCorrect(raw, Accepted(rm, key), spl)
           ELSE FullLike(raw, NaN),
   log |->
     (IF out = "createSpline" THEN <<Raise(Call("createSpline", rm, rawName, ""))>>
      ELSE <<Call("createSpline", rm, rawName, "")>>)
     \o (IF out = "createSpline" THEN <<>>
         ELSE IF out = "spline" THEN <<Raise(Call("spline", rm, rawName, ""))>>
         ELSE <<Call("spline", rm, rawName, "")>>)
     \o (IF out \in {"createSpline", "spline"} THEN <<>>
         ELSE IF out = "referenceMaterialData" THEN <<Raise(Call("referenceMaterialData", rm, key, ""))>>
         ELSE <<Call("referenceMaterialData", rm, key, "")>>)
     \o (IF out = "ok" THEN <<>> ELSE <<Call("message", "Warning", key, "")>>)]

\* the spline-based standard correction for 143Nd/144Nd
Std143 ==
  /\ pc = "std143"
  /\ \E out \in StdOutcomes, spl \in host.splines143 :
       LET r == StandardCorrection(rmName, "Nd143_144_Corr", loc.Nd143_144_Corr,
                                   "143Nd/144Nd", out, spl)
       IN /\ loc' = [loc EXCEPT !.StdCorr_143Nd_144 = r.std]
          /\ calls' = calls \o r.log
  /\ pc' = "std147"
  /\ UNCHANGED <<version, groups, drsSettings, settings, host, rmName, store, scan, result>>

\* the spline-based standard correction for 147Sm/144Nd
Std147 ==
  /\ pc = "std147"
  /\ \E out \in StdOutcomes, spl \in host.splines147 :
       LET r == StandardCorrection(rmName, "Sm147_Nd144_Corr", loc.Sm147_Nd144_Corr,
                                   "147Sm/144Nd", out, spl)
       IN /\ loc' = [loc EXCEPT !.StdCorr_147Sm_144 = r.std]
          /\ calls' = calls \o r.log
  /\ pc' = "outputs"
  /\ UNCHANGED <<version, groups, drsSettings, settings, host, rmName, store, scan, result>>

\* the series each version creates after the standard correction, in order
FinalNames(v) ==
  IF v = "v4.8"
  THEN <<"StdCorr_147Sm_144", "StdCorr_143Nd_144", "Nd143_144_Corr", "Nd145_144_Corr",
         "Nd148_144_Corr", "NdFract", "SmFract", "TotalNd">>
  ELSE <<"StdCorr_147Sm_144", "StdCorr_143Nd_144", "Nd145_144_Corr",
         "Nd148_144_Corr", "NdFract", "SmFract", "TotalNd">>

\* whether runDRS has an error-propagation section to enter: v4.8 reads
\* settings["PropagateError"] into propErrors, v4.9 has neither
propErrors == version = "v4.8" /\ settings.PropagateError

\* the final output time series
Outputs ==
  /\ pc = "outputs"
  /\ \E k \in Returned(Len(FinalNames(version))) :
       /\ store' = CreateAll(store, FinalNames(version), loc, k)
       /\ calls' = calls \o CreateCalls(FinalNames(version), k)
       /\ pc' = IF k < Len(FinalNames(version)) THEN "raised"
                ELSE IF propErrors THEN "propagate" ELSE "register"
  /\ UNCHANGED <<version, groups, drsSettings, settings, host, rmName, loc, scan, result>>

PropCall(op, gs, target, source, rm) ==
  [op |-> op, a |-> target, b |-> source, c |-> rm, g |-> gs, ok |-> TRUE]

\* faulty variant: the Baseline groups are not filtered out
selGroups_All(gs) == gs

\* selGroups of the error propagation
selGroups(gs) == SelectSeq(gs, LAMBDA g : g.type # "Baseline")

\* the two propagateErrors calls, in order
PropagateCalls(gs, rm) ==
  <<PropCall("propagateErrors", selGroups(gs), "StdCorr_143Nd_144", "Nd143_144_Corr", rm),
    PropCall("propagateErrors", selGroups(gs), "StdCorr_147Sm_144", "Sm147_Nd144_Corr", rm)>>

\* the error propagation of v4.8
Propagate ==
  /\ pc = "propagate"
  /\ \E k \in Returned(2) :
       LET pcs == PropagateCalls(groups, rmName)
       IN /\ calls' = calls \o [j \in 1..k |-> pcs[j]]
                      \o (IF k < 2 THEN <<Raise(pcs[k + 1])>>
                          ELSE <<Call("message", "Propagated uncertainties calculated.", "", "")>>)
          /\ pc' = IF k < 2 THEN "raised" ELSE "register"
  /\ UNCHANGED <<version, groups, drsSettings, settings, host, rmName, loc, store, scan, result>>

RhoLabel == "log10(StdCorr_147Sm/144Nd) vs log10(StdCorr_143Nd/144Nd) rho"

\* the registration of the associated result and the creation of the flat rho
\* series, up to the head of the scan loop
Register ==
  /\ pc = "register"
  /\ \E k \in Returned(1) :
       /\ store' = CreateAll(store, <<"rho">>, [rho |-> FullLike(Ones, NaN)], k)
       /\ calls' = calls \o <<Call("registerAssociatedResult", RhoLabel, "", "")>>
                     \o CreateCalls(<<"rho">>, k)
       /\ pc' = IF k < 1 THEN "raised"
                ELSE IF groups = <<>> THEN "finish" ELSE "scan"
  /\ scan' = [i |-> 1, first |-> NaN, evals |-> <<>>]
  /\ UNCHANGED <<version, groups, drsSettings, settings, host, rmName, loc, result>>

\* whether dataForSelection may raise
ExtractionRaises == IF host.faults THEN BOOLEAN ELSE {FALSE}

\* faulty variant: the loop has no break
AfterGroup_NoBreak(i, break) == IF i >= Len(groups) THEN "finish" ELSE "scan"

\* the position after the body of the scan loop ran for group i: the loop ends
\* on break and after the last group
AfterGroup(i, break) == IF break \/ i >= Len(groups) THEN "finish" ELSE "scan"

\* one iteration of the scan loop over data.selectionGroupList()
ScanStep ==
  /\ pc = "scan"
  /\ LET sel == groups[scan.i]
     IN IF sel.type = "Baseline"
        THEN /\ scan' = [scan EXCEPT !.i = scan.i + 1]
             /\ pc' = AfterGroup(scan.i, FALSE)
             /\ UNCHANGED calls
        ELSE \E raises \in ExtractionRaises :
               LET r == rho_corr_147Sm_143Nd(store, sel, raises)
                   found == ~r.raised /\ ~IsNaN(r.value)
               IN /\ scan' = [i |-> scan.i + 1,
                              first |-> IF found THEN r.value ELSE scan.first,
                              evals |-> Append(scan.evals,
                                               [g |-> scan.i, value |-> r.value,
                                                raised |-> r.raised])]
                  /\ calls' = calls \o r.log
                  /\ pc' = AfterGroup(scan.i, found)
  /\ UNCHANGED <<version, groups, drsSettings, settings, host, rmName, loc, store, result>>

\* the end of runDRS: the flat rho series is overwritten if a rho was found
Finish ==
  /\ pc = "finish"
  /\ IF ~IsNaN(scan.first)
     THEN /\ store' = [store EXCEPT !.rho = FullLike(Ones, scan.first)]
          /\ calls' = calls \o
               <<Call("setData", "rho", "", ""), Call("progress", "100", "", ""),
                 Call("message", "Finished!", "", ""), Call("finished", "", "", "")>>
     ELSE /\ UNCHANGED store
          /\ calls' = calls \o
               <<Call("progress", "100", "", ""),
                 Call("message", "Finished!", "", ""), Call("finished", "", "", "")>>
  /\ pc' = "done"
  /\ UNCHANGED <<version, groups, drsSettings, settings, host, rmName, loc, scan, result>>

registered == \E i \in 1..Len(calls) : calls[i].op = "registerAssociatedResult"

\* the host invokes the registered associated result for a selection, once
\* runDRS is over
AssociatedResult ==
  /\ pc \in {"done", "raised"}
  /\ registered
  /\ \E i \in 1..Len(groups), raises \in ExtractionRaises :
       LET r == rho_corr_147Sm_143Nd(store, groups[i], raises)
       IN result' = [sel |-> groups[i].name, value |-> r.value,
                     raised |-> r.raised, log |-> r.log]
  /\ UNCHANGED <<version, groups, drsSettings, settings, host, pc, rmName, loc, store, calls, scan>>

Next ==
  \/ Resolve
  \/ Reduce
  \/ Std143
  \/ Std147
  \/ Outputs
  \/ Propagate
  \/ Register
  \/ ScanStep
  \/ Finish
  \/ AssociatedResult

Spec == Init /\ [][Next]_vars

\* ------------------------------------------------------------ the numeric section alone
\* SpecPipe runs the numeric section of runDRS (from parameter loading to the
\* final output series) on every combination of count rates below at sample 1,
\* the other samples being nominal, with no host call raising.
PipeCps ==
  [Nd143 : {Zero, Fin(1, 3)},
   Nd144 : {Zero, Fin(1, 4), Fin(1, 2), Fin(-1, 2)},
   Nd145 : {Zero, Fin(1, 3)},
   Nd146 : {Zero, Fin(1, 3), Fin(-1, 3)},
   Nd148 : {Zero, Fin(1, 2), Fin(1, 3)},
   Sm147 : {Zero, Fin(1, 3), Fin(-1, 3)},
   Sm149 : {Zero, Fin(1, 3), Fin(-1, 3)}]

\* the settings constants: the defaults, and each constant at zero or negative
\* (the line edits of settingsWidget accept any number, and 0.0 for no text)
PipeConsts ==
  {DefaultConsts,
   [DefaultConsts EXCEPT !.NdTrue = Zero],
   [DefaultConsts EXCEPT !.Sm147_149 = Zero],
   [DefaultConsts EXCEPT !.Sm144_149 = Fin(-1, -1)],
   [DefaultConsts EXCEPT !.Sm148_149 = Zero]}

InitPipe ==
  /\ version \in Versions
  /\ groups = <<[name |-> "G_LREE", type |-> "ReferenceMaterial", idx |-> {1, 2}]>>
  /\ \E c \in PipeConsts : drsSettings = MkSettings("G_LREE", FALSE, c)
  /\ settings = drsSettings
  /\ \E x \in PipeCps, m \in {Ones, Zeros} :
       host = [faults |-> FALSE, cps |-> [NominalCps EXCEPT ![1] = x], mask |-> m,
               splines143 |-> {Ramp, ZeroFirst}, splines147 |-> {Ramp, ZeroFirst}]
  /\ pc = "reduce"
  /\ rmName = "G_LREE"
  /\ loc = NoLocals
  /\ store = EmptyStore
  /\ calls = <<Call("message", "Running", "", ""), Call("progress", "0", "", "")>>
  /\ scan = NoScan
  /\ result = NoResult

NextPipe ==
  \/ Reduce
  \/ Std143
  \/ Std147
  \/ Outputs

SpecPipe == InitPipe /\ [][NextPipe]_vars

\* ------------------------------------------------------------ rounding
\* The standard correction at the precision of the arithmetic.  float64 is
\* modelled by a binary format with a Precision-bit significand, exponents in
\* -ExpRange..ExpRange, gradual underflow, overflow to infinity and
\* round-to-nearest-even: a finite value is s * m * 2^e.
Precision == 3
ExpRange == 4

RECURSIVE Pow2(_)
Pow2(n) == IF n <= 0 THEN 1 ELSE 2 * Pow2(n - 1)

BNaN == [k |-> "nan", s |-> 0, m |-> 0, e |-> 0]
BInf(s) == [k |-> "inf", s |-> s, m |-> 0, e |-> 0]
BZero(s) == [k |-> "zero", s |-> s, m |-> 0, e |-> 0]
BFin(s, m, e) == [k |-> "fin", s |-> s, m |-> m, e |-> e]

\* the finite non-zero values of the format
BFinites ==
  {BFin(s, m, e) : s \in {-1, 1}, m \in Pow2(Precision - 1)..(Pow2(Precision) - 1),
                   e \in (-ExpRange)..ExpRange}
  \cup {BFin(s, m, -ExpRange) : s \in {-1, 1}, m \in 1..(Pow2(Precision - 1) - 1)}
BFloats == BFinites \cup {BNaN, BInf(1), BInf(-1), BZero(1), BZero(-1)}

\* n / d rounded to an integer, ties to even
RoundHalfEven(n, d) ==
  LET q == n \div d
      r == n % d
  IN IF 2 * r > d \/ (2 * r = d /\ q % 2 = 1) THEN q + 1 ELSE q

\* s * (n / d) * 2^e, with n, d > 0, rounded to the format
RECURSIVE BRound(_, _, _, _)
BRound(s, n, d, e) ==
  IF e < -ExpRange \/ n >= d * Pow2(Precision) THEN BRound(s, n, 2 * d, e + 1)
  ELSE IF n < d * Pow2(Precision - 1) /\ e > -ExpRange THEN BRound(s, 2 * n, d, e - 1)
  ELSE LET m == RoundHalfEven(n, d)
           mm == IF m = Pow2(Precision) THEN Pow2(Precision - 1) ELSE m
           ee == IF m = Pow2(Precision) THEN e + 1 ELSE e
       IN IF m = 0 THEN BZero(s)
          ELSE IF ee > ExpRange THEN BInf(s)
          ELSE BFin(s, mm, ee)

\* float64 a * b
BMul(a, b) ==
  IF a.k = "nan" \/ b.k = "nan" THEN BNaN
  ELSE IF (a.k = "inf" /\ b.k = "zero") \/ (a.k = "zero" /\ b.k = "inf") THEN BNaN
  ELSE IF a.k = "inf" \/ b.k = "inf" THEN BInf(a.s * b.s)
  ELSE IF a.k = "zero" \/ b.k = "zero" THEN BZero(a.s * b.s)
  ELSE BRound(a.s * b.s, a.m * b.m, 1, a.e + b.e)

\* float64 a / b (division by zero gives an infinity or NaN, with a warning only)
BDiv(a, b) ==
  IF a.k = "nan" \/ b.k = "nan" THEN BNaN
  ELSE IF (a.k = "inf" /\ b.k = "inf") \/ (a.k = "zero" /\ b.k = "zero") THEN BNaN
  ELSE IF a.k = "inf" \/ b.k = "zero" THEN BInf(a.s * b.s)
  ELSE IF a.k = "zero" \/ b.k = "inf" THEN BZero(a.s * b.s)
  ELSE BRound(a.s * b.s, a.m, b.m, a.e - b.e)

\* float64 a == b: NaN equals nothing, the two zeros are equal
BEq(a, b) ==
  /\ a.k # "nan" /\ b.k # "nan"
  /\ \/ a = b
     \/ a.k = "zero" /\ b.k = "zero"

\* faulty variant: the accepted value is left out of the correction
StdCorrectBin_NoAccepted(raw, std, spline) ==
  [i \in 1..Len(raw) |->
     BDiv(raw[i], IF ~BEq(spline[i], BZero(1)) THEN spline[i] ELSE BNaN)]

\* raw * std / np.where(spline != 0, spline, np.nan), elementwise, rounded as
\* float64 rounds: the product first, then the quotient
StdCorrectBin(raw, std, spline) ==
  [i \in 1..Len(raw) |->
     BDiv(BMul(raw[i], std), IF ~BEq(spline[i], BZero(1)) THEN spline[i] ELSE BNaN)]

\* a raw ratio of a sample away from sample 1
BTypical == BFin(1, Pow2(Precision - 1) + 1, -Precision)
\* a series whose sample 1 is x
BSeries(x) == [i \in 1..TimeLen |-> IF i = 1 THEN x ELSE BTypical]
\* accepted 143Nd/144Nd values: the values of the format in [1/2, 1)
BAccepted143 ==
  {BFin(1, m, -Precision) : m \in Pow2(Precision - 1)..(Pow2(Precision) - 1)}
\* accepted 147Sm/144Nd values: the values of the format in [1/4, 1/2), and zero
BAccepted147 ==
  {BFin(1, m, -Precision - 1) : m \in Pow2(Precision - 1)..(Pow2(Precision) - 1)}
  \cup {BZero(1)}

\* the state before the two standard corrections: the raw ratios are local
\* arrays, the host holds a spline for each and the accepted values
InitRound ==
  /\ version \in Versions
  /\ groups = <<[name |-> "G_LREE", type |-> "ReferenceMaterial", idx |-> {1, 2}]>>
  /\ drsSettings = MkSettings("G_LREE", FALSE, DefaultConsts)
  /\ settings = drsSettings
  /\ \E x \in BFloats, a \in BAccepted143, b \in BAccepted147 :
     \E y \in {x, BTypical, BZero(1)} :
       /\ host = [faults |-> FALSE, cps |-> NominalCps, mask |-> Ones,
                  splines143 |-> {BSeries(y)}, splines147 |-> {BSeries(y)},
                  accepted |-> [Nd143 |-> a, Sm147 |-> b]]
       /\ loc = [NoLocals EXCEPT !.Nd143_144_Corr = BSeries(x),
                                 !.Sm147_Nd144_Corr = BSeries(x)]
  /\ pc = "std143"
  /\ rmName = "G_LREE"
  /\ store = EmptyStore
  /\ calls = <<>>
  /\ scan = NoScan
  /\ result = NoResult

\* the calls of a try block in which nothing raises
StdCalls(rm, rawName, key) ==
  <<Call("createSpline", rm, rawName, ""), Call("spline", rm, rawName, ""),
    Call("referenceMaterialData", rm, key, "")>>

\* the try block for 143Nd/144Nd, nothing raising
Std143Bin ==
  /\ pc = "std143"
  /\ \E spl \in host.splines143 :
       loc' = [loc EXCEPT !.StdCorr_143Nd_144 =
                 StdCorrectBin(loc.Nd143_144_Corr, host.accepted.Nd143, spl)]
  /\ calls' = calls \o StdCalls(rmName, "Nd143_144_Corr", "143Nd/144Nd")
  /\ pc' = "std147"
  /\ UNCHANGED <<version, groups, drsSettings, settings, host, rmName, store, scan, result>>

\* the try block for 147Sm/144Nd, nothing raising
Std147Bin ==
  /\ pc = "std147"
  /\ \E spl \in host.splines147 :
       loc' = [loc EXCEPT !.StdCorr_147Sm_144 =
                 StdCorrectBin(loc.Sm147_Nd144_Corr, host.accepted.Sm147, spl)]
  /\ calls' = calls \o StdCalls(rmName, "Sm147_Nd144_Corr", "147Sm/144Nd")
  /\ pc' = "outputs"
  /\ UNCHANGED <<version, groups, drsSettings, settings, host, rmName, store, scan, result>>

NextRound ==
  \/ Std143Bin
  \/ Std147Bin

SpecRound == InitRound /\ [][NextRound]_vars

\* ------------------------------------------------------------ properties
rmNames == selectionGroupNames(groups, "ReferenceMaterial")
\* the name configured when the run started (the local settings keep it)
configured == settings.ReferenceMaterial
Resolved == pc \notin {"start", "returned"}
CallsOf(op) == {i \in 1..Len(calls) : calls[i].op = op /\ calls[i].ok}

\* C1: once the reference-material check has run: a configured name that is in
\* the list is the resolved name and no setting is written; otherwise G_LREE is
\* resolved if it is in the list, else the first name of a non-empty list; in
\* both fallback cases the ReferenceMaterial setting is overwritten with the
\* resolved name; and the resolved name is a member of the list.
C1_Resolution ==
  pc # "start" =>
    /\ InSeq(configured, rmNames) =>
         /\ rmName = configured
         /\ CallsOf("setSetting") = {}
         /\ drsSettings = settings
    /\ (~InSeq(configured, rmNames) /\ InSeq("G_LREE", rmNames)) => rmName = "G_LREE"
    /\ (~InSeq(configured, rmNames) /\ ~InSeq("G_LREE", rmNames) /\ rmNames # <<>>) =>
         rmName = rmNames[1]
    /\ (~InSeq(configured, rmNames) /\ rmNames # <<>>) =>
         /\ drsSettings = [settings EXCEPT !.ReferenceMaterial = rmName]
         /\ \E i \in CallsOf("setSetting") :
              /\ calls[i].a = "ReferenceMaterial"
              /\ calls[i].b = rmName
              /\ CallsOf("setSetting") = {i}
    /\ rmNames # <<>> => InSeq(rmName, rmNames)
    /\ Resolved => InSeq(rmName, rmNames)

\* C1 witness: a run fell back to G_LREE although another name comes first
C1_Witness ==
  /\ pc = "done"
  /\ ~InSeq(configured, rmNames)
  /\ Len(rmNames) = 2
  /\ rmNames[2] = "G_LREE"
  /\ rmName = "G_LREE"
  /\ drsSettings.ReferenceMaterial = "G_LREE"

\* the calls that C2 says are not made
C2_Forbidden ==
  {"createTimeSeries", "setSetting", "createMaskFromCutoff", "baselineSubtract",
   "createSpline", "spline", "referenceMaterialData", "registerAssociatedResult",
   "propagateErrors", "setData"}

\* C2: with no reference-material group at all, once the reference-material check has run: an error
\* message was sent, finished was signalled exactly once and as the last call,
\* runDRS has returned, no output series exists, no setting was written and none
\* of mask construction, baseline subtraction, spline request or
\* associated-result registration was performed.
C2_NoReferenceMaterial ==
  (pc # "start" /\ rmNames = <<>>) =>
    /\ pc = "returned"
    /\ \E i \in CallsOf("message") : calls[i].a = "Error: No reference material available."
    /\ Cardinality(CallsOf("finished")) = 1
    /\ calls[Len(calls)].op = "finished"
    /\ store = EmptyStore
    /\ drsSettings = settings
    /\ \A i \in 1..Len(calls) : calls[i].op \notin C2_Forbidden

\* C2 witness: a run over a store with groups but no reference material returned
C2_Witness ==
  /\ pc = "returned"
  /\ groups # <<>>
  /\ rmNames = <<>>
  /\ Len(calls) = 4

\* the two standardized ratios: raw series, standardized series, accepted-value key
Ratios ==
  {[raw |-> "Nd143_144_Corr", std |-> "StdCorr_143Nd_144", key |-> "143Nd/144Nd",
    after |-> {"std147", "outputs", "propagate", "register", "scan", "finish", "done"}],
   [raw |-> "Sm147_Nd144_Corr", std |-> "StdCorr_147Sm_144", key |-> "147Sm/144Nd",
    after |-> {"outputs", "propagate", "register", "scan", "finish", "done"}]}

SplineOps == {"createSpline", "spline", "referenceMaterialData"}
\* a spline construction, spline evaluation or accepted-value lookup raised for r
SplineFailed(r) ==
  \E i \in 1..Len(calls) :
    /\ ~calls[i].ok
    /\ calls[i].op \in SplineOps
    /\ calls[i].b \in {r.raw, r.key}
\* publishing the raw series of r (its first creation) raised
PublishFailed(r) ==
  \E i \in 1..Len(calls) :
    /\ ~calls[i].ok /\ calls[i].op = "createTimeSeries" /\ calls[i].a = r.raw
    /\ store[r.raw] = <<>>
\* some call outside the try blocks raised
UncaughtRaise ==
  \E i \in 1..Len(calls) : ~calls[i].ok /\ calls[i].op \notin SplineOps
Warned(r) ==
  \E i \in CallsOf("message") : calls[i].a = "Warning" /\ calls[i].b = r.key
Attempted(r) ==
  \E i \in 1..Len(calls) : calls[i].op = "createSpline" /\ calls[i].b = r.raw
AllNaN(a) == \A i \in 1..Len(a) : IsNaN(a[i])
Completed ==
  /\ pc = "done"
  /\ \A n \in OutNames : store[n] # <<>>
  /\ calls[Len(calls)].op = "finished"
RunOver == pc \in {"done", "raised", "returned"}

\* C3 as amended: for each of the two ratios, if spline construction, spline
\* evaluation or the accepted-value lookup raises, the ratio's standardized
\* array is all NaN and as long as the raw ratio, a warning was sent, the other
\* ratio's standardization is still attempted and gives what it gives without
\* the failure, and the run ends completed, with every output series created,
\* unless a call outside the try blocks raises.  A raise while publishing a raw
\* series is not caught: runDRS ends there, before any spline request, with no
\* warning and no completion signal.
C3_Degraded ==
  /\ \A r \in Ratios :
       (pc \in r.after /\ SplineFailed(r)) =>
         /\ AllNaN(loc[r.std])
         /\ Len(loc[r.std]) = Len(loc[r.raw])
         /\ Len(loc[r.std]) = TimeLen
         /\ Warned(r)
         /\ pc = "done" => (AllNaN(store[r.std]) /\ Len(store[r.std]) = TimeLen)
  /\ \A r \in Ratios :
       (pc \in {"outputs", "propagate", "register", "scan", "finish", "done"}) =>
         /\ Attempted(r)
         /\ ~SplineFailed(r) =>
              \E spl \in (IF r.key = "143Nd/144Nd" THEN host.splines143 ELSE host.splines147) :
                loc[r.std] = StdCorrect(loc[r.raw], Accepted(rmName, r.key), spl)
  /\ (RunOver /\ Resolved /\ ~UncaughtRaise) => Completed
  /\ \A r \in Ratios :
       PublishFailed(r) =>
         /\ pc = "raised"
         /\ \A q \in Ratios : ~Attempted(q) /\ ~Warned(q)
         /\ CallsOf("finished") = {}
         /\ loc.StdCorr_143Nd_144 = <<>>
         /\ loc.StdCorr_147Sm_144 = <<>>

\* C3 witness: a completed run in which the 143Nd/144Nd correction failed and
\* the 147Sm/144Nd correction gave values
C3_Witness ==
  /\ Completed
  /\ \E r, o \in Ratios :
       /\ r.key = "143Nd/144Nd" /\ o.key = "147Sm/144Nd"
       /\ SplineFailed(r) /\ ~SplineFailed(o)
       /\ AllNaN(store[r.std])
       /\ ~AllNaN(store[o.std])

\* C3 as stated: a raise while publishing the raw series of a ratio is among the
\* failures that leave the ratio's standardized series all NaN with a warning
\* sent and the run completed (no other call raising).
C3_Original ==
  \A r \in Ratios :
    (RunOver /\ (SplineFailed(r) \/ PublishFailed(r))
       /\ \A i \in 1..Len(calls) :
            ~calls[i].ok => (calls[i].op \in SplineOps \/ calls[i].a \in RawNameSet)) =>
      /\ AllNaN(loc[r.std])
      /\ Len(loc[r.std]) = Len(loc[r.raw])
      /\ Warned(r)
      /\ Completed

\* the names of the output series in the order C4 gives
C4_Order ==
  <<"Nd143_144_Corr", "Sm147_Nd144_Corr", "StdCorr_147Sm_144", "StdCorr_143Nd_144",
    "Nd145_144_Corr", "Nd148_144_Corr", "NdFract", "SmFract", "TotalNd", "rho">>

\* the names of the createTimeSeries calls that returned, in order
Created ==
  LET cs == SelectSeq(calls, LAMBDA c : c.op = "createTimeSeries" /\ c.ok)
  IN [i \in 1..Len(cs) |-> cs[i].a]

\* C4: in a run that passed the reference-material check and completed, the
\* createTimeSeries calls are exactly the ten of C4_Order, in that order, each
\* name once, and only rho is written again (by setData).
C4_CreationOrder ==
  pc = "done" =>
    /\ Created = C4_Order
    /\ \A i \in CallsOf("setData") : calls[i].a = "rho"

\* the propagateErrors invocations so far (returned or raised), in order
PropInvocations ==
  LET cs == SelectSeq(calls, LAMBDA c : c.op = "propagateErrors")
  IN [i \in 1..Len(cs) |-> [a |-> cs[i].a, b |-> cs[i].b, c |-> cs[i].c, g |-> cs[i].g]]

\* the groups C5 expects in each invocation
NotBaseline ==
  SelectSeq(groups, LAMBDA g : g.type \in {"ReferenceMaterial", "Sample"})

C5_Expected ==
  {[a |-> "StdCorr_143Nd_144", b |-> "Nd143_144_Corr", c |-> rmName, g |-> NotBaseline],
   [a |-> "StdCorr_147Sm_144", b |-> "Sm147_Nd144_Corr", c |-> rmName, g |-> NotBaseline]}

PropEnabled == pc # "start" /\ settings.PropagateError

\* C5 as amended: a run of v4.8 that passed the reference-material check with
\* PropagateError enabled and ran to completion invoked propagateErrors exactly
\* twice, both times with the groups that are not Baseline and the resolved
\* name, once for (StdCorr_143Nd_144, Nd143_144_Corr) and once for
\* (StdCorr_147Sm_144, Sm147_Nd144_Corr); before completion it invoked it at
\* most that; with the setting disabled, and in v4.9, which has neither the
\* setting nor the propagation, it is never invoked.
C5_Propagation ==
  /\ (pc = "done" /\ PropEnabled /\ version = "v4.8") =>
       /\ Len(PropInvocations) = 2
       /\ {PropInvocations[i] : i \in 1..Len(PropInvocations)} = C5_Expected
  /\ \A i \in 1..Len(PropInvocations) : PropInvocations[i] \in C5_Expected
  /\ Len(PropInvocations) <= 2
  /\ (~PropEnabled \/ version = "v4.9") => PropInvocations = <<>>

\* C5 witness: a completed v4.8 run with a Baseline group in the store and two
\* invocations
C5_Witness ==
  /\ pc = "done"
  /\ PropEnabled
  /\ \E i \in 1..Len(groups) : groups[i].type = "Baseline"
  /\ Len(PropInvocations) = 2
  /\ Len(NotBaseline) = 1

\* C5 as stated: every run that passed the reference-material check with the
\* setting enabled has, when it is over, invoked propagateErrors exactly twice.
C5_Original ==
  (RunOver /\ Resolved /\ PropEnabled) =>
    /\ Len(PropInvocations) = 2
    /\ {PropInvocations[i] : i \in 1..Len(PropInvocations)} = C5_Expected

\* the indices of the groups that are not Baseline, in the store's order
ScanOrder == SelectSeq([i \in 1..Len(groups) |-> i], LAMBDA i : groups[i].type # "Baseline")
\* the values a group's rho can take (the extraction raising or not)
RhoValues(g) == {rho_corr_147Sm_143Nd(store, g, r).value : r \in BOOLEAN}
FirstHit(evals) ==
  IF \E j \in 1..Len(evals) : ~IsNaN(evals[j].value)
  THEN evals[CHOOSE j \in 1..Len(evals) :
               /\ ~IsNaN(evals[j].value)
               /\ \A h \in 1..(j - 1) : IsNaN(evals[h].value)].value
  ELSE NaN

\* C6: after a completed run the rho series is constant over the time axis;
\* the groups evaluated are the non-Baseline groups in the store's order, up to
\* and including the first whose rho is not NaN (all of them if there is none):
\* no Baseline group, no group after the first success, and a group whose
\* evaluation failed does not end the scan; the series holds that first non-NaN
\* rho at every sample, and NaN at every sample if there is none.
C6_FlatRho ==
  pc = "done" =>
    LET ev == scan.evals
    IN /\ Len(ev) <= Len(ScanOrder)
       /\ \A j \in 1..Len(ev) :
            /\ ev[j].g = ScanOrder[j]
            /\ ev[j].value \in RhoValues(groups[ev[j].g])
            /\ j < Len(ev) => IsNaN(ev[j].value)
       /\ Len(ev) < Len(ScanOrder) => ~IsNaN(ev[Len(ev)].value)
       /\ Len(store.rho) = TimeLen
       /\ \A i \in 1..TimeLen : store.rho[i] = FirstHit(ev)

\* C6 witness: the first group's evaluation failed, the second gave a rho that
\* fills the series
C6_Witness ==
  /\ pc = "done"
  /\ Len(scan.evals) = 2
  /\ IsNaN(scan.evals[1].value)
  /\ \E i \in CallsOf("message") : calls[i].a = "rho_corr error"
  /\ ~IsNaN(scan.evals[2].value)
  /\ store.rho = FullLike(Ones, scan.evals[2].value)

\* the number of samples of group g that pass the validity test, read from the store
ValidCount(g) ==
  Cardinality({i \in g.idx \cap (1..TimeLen) :
                 /\ store.StdCorr_147Sm_144[i].k \in {"fin", "inf"}
                 /\ store.StdCorr_147Sm_144[i].s = 1
                 /\ store.StdCorr_143Nd_144[i].k \in {"fin", "inf"}
                 /\ store.StdCorr_143Nd_144[i].s = 1})
SeriesThere == store.StdCorr_147Sm_144 # <<>> /\ store.StdCorr_143Nd_144 # <<>>
GroupNamed(n) == CHOOSE g \in GroupPool : g.name = n

\* C7: every Result the callable returned, to the host or to the scan, was
\* returned and not raised; a Result that followed an exception (a message was
\* sent) names the selection in the message and is NaN; a missing series is such
\* an exception; and with fewer than 2 valid pairs in the selection the rho is NaN.
C7_RhoNeverRaises ==
  /\ result # NoResult =>
       /\ ~result.raised
       /\ result.log # <<>> =>
            /\ IsNaN(result.value)
            /\ result.log[1].op = "message"
            /\ result.log[1].b = result.sel
       /\ ~SeriesThere => (result.log # <<>> /\ IsNaN(result.value))
       /\ (SeriesThere /\ ValidCount(GroupNamed(result.sel)) < 2) => IsNaN(result.value)
  /\ \A j \in 1..Len(scan.evals) :
       /\ ~scan.evals[j].raised
       /\ (SeriesThere /\ ValidCount(groups[scan.evals[j].g]) < 2) =>
            IsNaN(scan.evals[j].value)

\* C7 witness: the host asked for the rho of a selection with exactly one valid
\* pair, nothing raised, and the rho is NaN
C7_Witness ==
  /\ result # NoResult
  /\ result.log = <<>>
  /\ SeriesThere
  /\ ValidCount(GroupNamed(result.sel)) = 1
  /\ IsNaN(result.value)

\* C8: no output series holds an infinite value at any sample.
C8_NoInfinity ==
  \A n \in OutNames : \A i \in 1..Len(store[n]) : ~IsInf(store[n][i])

\* C9: a spline is requested for a series only after the series was published
\* under that name, and every spline and accepted-value request names the
\* resolved reference material.
C9_PublishBeforeSpline ==
  \A j \in 1..Len(calls) :
    /\ calls[j].op = "createSpline" =>
         /\ calls[j].b \in RawNameSet
         /\ \E i \in 1..(j - 1) :
              calls[i].op = "createTimeSeries" /\ calls[i].ok /\ calls[i].a = calls[j].b
         /\ store[calls[j].b] # <<>>
    /\ calls[j].op \in SplineOps =>
         /\ calls[j].a = rmName
         /\ InSeq(calls[j].a, rmNames)
         /\ calls[j].a = drsSettings.ReferenceMaterial

\* C9 witness: a completed run that fell back to a reference material and got
\* both splines
C9_Witness ==
  /\ pc = "done"
  /\ configured # rmName
  /\ \A r \in Ratios :
       \E j \in CallsOf("createSpline") : calls[j].b = r.raw /\ calls[j].a = rmName

\* the masked products of the numeric section
MaskedProducts ==
  {"SmFract", "NdFract", "Sm144", "Sm148", "Nd144c", "Nd148c", "Nd143_144_Corr",
   "Nd145_144_Corr", "Nd148_144_Corr", "Sm147_Nd144_Corr", "TotalNd"}
ZeroOrNaN(x) == IsZero(x) \/ IsNaN(x)

\* C10: with an all-zero mask every masked product is zero or NaN at every
\* sample, whatever the count rates and the settings constants, and so are the
\* series created from them.
C10_ZeroMask ==
  (host.mask = Zeros /\ pc # "reduce") =>
    /\ \A n \in MaskedProducts :
         /\ Len(loc[n]) = TimeLen
         /\ \A i \in 1..TimeLen : ZeroOrNaN(loc[n][i])
    /\ \A n \in MaskedProducts \cap OutNames :
         \A i \in 1..Len(store[n]) : ZeroOrNaN(store[n][i])

\* C10 witness: an all-zero mask over positive count rates, the outputs created,
\* with a product that is zero and one that is NaN
C10_Witness ==
  /\ host.mask = Zeros
  /\ pc = "register"
  /\ host.cps[1].Nd146 = Fin(1, 3)
  /\ host.cps[1].Sm147 = Zero
  /\ IsZero(store.TotalNd[1])
  /\ IsNaN(store.SmFract[1])
  /\ IsNaN(store.Nd143_144_Corr[1])

\* the two corrections under SpecRound: raw array, standardized array, the
\* spline the host gave and the accepted value
RoundRatios ==
  {[raw |-> loc.Nd143_144_Corr, std |-> loc.StdCorr_143Nd_144,
    spline |-> CHOOSE s \in host.splines143 : TRUE, accepted |-> host.accepted.Nd143],
   [raw |-> loc.Sm147_Nd144_Corr, std |-> loc.StdCorr_147Sm_144,
    spline |-> CHOOSE s \in host.splines147 : TRUE, accepted |-> host.accepted.Sm147]}
\* a finite or zero value as an integer multiple of the smallest spacing
BScaled(x) == IF x.k = "fin" THEN x.s * x.m * Pow2(x.e + ExpRange) ELSE 0
\* the spacing of the format at the finite value x, in the same unit
BUlp(x) == Pow2(x.e + ExpRange)
\* r is within n units in the last place of the finite value a
WithinUlps(r, a, n) ==
  /\ r.k \in {"fin", "zero"}
  /\ BScaled(r) - BScaled(a) <= n * BUlp(a)
  /\ BScaled(a) - BScaled(r) <= n * BUlp(a)
\* the exact product x * a is finite and at least the smallest normal value
\* of the format: computing it neither overflows nor underflows
InRange(x, a) ==
  /\ x.k = "fin" /\ a.k = "fin"
  /\ BMul(x, a).k = "fin"
  /\ x.m * a.m * Pow2(x.e + a.e + 2 * ExpRange) >= Pow2(Precision - 1 + ExpRange)
\* the samples of a computed correction at which the spline equals the raw ratio
Matching(r) == {i \in 1..Len(r.std) : BEq(r.spline[i], r.raw[i])}

\* C11 as amended: at every sample where the spline value equals the raw
\* corrected ratio, for both ratios: if the raw ratio is finite and non-zero and
\* raw * accepted neither overflows nor underflows, the standardized ratio is
\* the accepted value up to the rounding of the product and of the quotient
\* (within 1 unit in the last place; exactly the accepted value when the raw
\* ratio is a power of two, and zero when the accepted value is zero); if the
\* raw ratio is zero or infinite the standardized ratio is NaN.
C11_RoundTrip ==
  \A r \in RoundRatios : \A i \in Matching(r) :
    /\ r.raw[i].k \in {"zero", "inf"} => r.std[i] = BNaN
    /\ (r.raw[i].k = "fin" /\ r.accepted.k = "zero") => r.std[i].k = "zero"
    /\ InRange(r.raw[i], r.accepted) =>
         /\ WithinUlps(r.std[i], r.accepted, 1)
         /\ r.raw[i].m = Pow2(Precision - 1) => r.std[i] = r.accepted

\* C11 witness: both corrections ran over a spline equal to a finite non-zero
\* raw ratio; the 143Nd/144Nd result is the accepted value, the 147Sm/144Nd
\* result is next to its accepted value but not equal to it
C11_Witness ==
  /\ pc = "outputs"
  /\ \A r \in RoundRatios :
       /\ 1 \in Matching(r)
       /\ InRange(r.raw[1], r.accepted)
  /\ loc.StdCorr_143Nd_144[1] = host.accepted.Nd143
  /\ loc.StdCorr_147Sm_144[1] # host.accepted.Sm147
  /\ WithinUlps(loc.StdCorr_147Sm_144[1], host.accepted.Sm147, 1)

\* C11 as stated: at every sample where the spline value equals the raw
\* corrected ratio, the standardized ratio equals the accepted value.
C11_Original ==
  \A r \in RoundRatios : \A i \in Matching(r) : r.std[i] = r.accepted

====
